---- MODULE Spec2Model ----
(***************************************************************************)
(* Model of convert_hexchat_to_weechat.py: the HexChat line classifier,    *)
(* the WeeChat line parser and the merge / sort / dedup pipeline of        *)
(* process_file, driven by main.                                           *)
(*                                                                         *)
(* Text is a sequence of one-character strings.  Control characters are    *)
(* written in caret notation ("^C" is 0x03), except TAB, LF and CR which   *)
(* are "\t", "\n" and "\r".                                                *)
(*                                                                         *)
(* A Python int timestamp ts is held as the pair <<ts div 86400,           *)
(* ts mod 86400>> (floor division), so that values beyond 32 bits such as  *)
(* 253402300800 are represented exactly enough to decide every branch.     *)
(***************************************************************************)
EXTENDS Integers, Sequences, FiniteSets

VARIABLES
    hexchat,       \* HEXCHAT_DIR: subdir -> Absent or the file's lines
    weechat,       \* WEECHAT_DIR/<name>.log: Absent or the file's lines
    ret,           \* what the last process_file call returned (or raised)
    io,            \* what the last process_file call did to the destination
    merged,        \* the entries / sort order / survivors of the last call
    before,        \* the destination file as it was before the last call
    runs,          \* number of calls made so far
    pc,            \* which specification / phase the state belongs to
    line,          \* classifier specification: the raw input line
    result,        \* classifier specification: parse_hexchat_line(line)
    text,          \* stripping specification: the input text
    clean          \* stripping specification: strip_mirc_colors(text)

vars == <<hexchat, weechat, ret, io, merged, before, runs, pc,
          line, result, text, clean>>

----------------------------------------------------------------------------
(* Characters *)

TAB == "\t"
LF == "\n"
CR == "\r"
ETX == "^C"

Digits == {"0", "1", "2", "3", "4", "5", "6", "7", "8", "9"}

\* ord(c) < 32
ControlChars ==
    {"^@", "^A", "^B", "^C", "^D", "^E", "^F", "^G", "^H", TAB, LF, "^K",
     "^L", CR, "^N", "^O", "^P", "^Q", "^R", "^S", "^T", "^U", "^V", "^W",
     "^X", "^Y", "^Z", "^[", "^\\", "^]", "^^", "^_"}

\* [\x02\x0f\x16\x1d\x1f\x07]
FormatToggles == {"^B", "^O", "^V", "^]", "^_", "^G"}

\* a slip of the keyboard: \x01 let through as well
allowed_control_soh ==
    {ETX, "^A", "^B", "^O", "^V", "^]", "^_", "^G", TAB, LF, CR}

allowed_control == {ETX, "^B", "^O", "^V", "^]", "^_", "^G", TAB, LF, CR}

\* what str.isspace / the regex class \s accept
PyWhitespace == {" ", TAB, LF, CR, "^K", "^L", "^\\", "^]", "^^", "^_"}

DigitVal(c) ==
    CASE c = "0" -> 0 [] c = "1" -> 1 [] c = "2" -> 2 [] c = "3" -> 3
      [] c = "4" -> 4 [] c = "5" -> 5 [] c = "6" -> 6 [] c = "7" -> 7
      [] c = "8" -> 8 [] c = "9" -> 9

DigitChar(n) ==
    CASE n = 0 -> "0" [] n = 1 -> "1" [] n = 2 -> "2" [] n = 3 -> "3"
      [] n = 4 -> "4" [] n = 5 -> "5" [] n = 6 -> "6" [] n = 7 -> "7"
      [] n = 8 -> "8" [] n = 9 -> "9"

----------------------------------------------------------------------------
(* Sequence helpers *)

Drop(s, n) == SubSeq(s, n + 1, Len(s))

Take(s, n) == SubSeq(s, 1, n)

RECURSIVE IndexFrom(_, _, _)
\* smallest index >= from at which s holds c, or 0
IndexFrom(s, c, from) ==
    IF from > Len(s) THEN 0
    ELSE IF s[from] = c THEN from
    ELSE IndexFrom(s, c, from + 1)

RECURSIVE RunFrom(_, _, _, _)
\* number of elements of s from index i on that lie in S (inside = TRUE) or
\* outside S (inside = FALSE), up to the first that does not
RunFrom(s, S, inside, i) ==
    IF i > Len(s) \/ (s[i] \in S) # inside THEN 0
    ELSE 1 + RunFrom(s, S, inside, i + 1)

\* number of leading elements of s that lie in S
RunLen(s, S) == RunFrom(s, S, TRUE, 1)

\* number of leading elements of s that are not whitespace
NonBlankLen(s) == RunFrom(s, PyWhitespace, FALSE, 1)

StartsWith(s, p) == Len(s) >= Len(p) /\ Take(s, Len(p)) = p

RECURSIVE rstrip(_)
\* str.rstrip('\n\r')
rstrip(s) ==
    IF Len(s) > 0 /\ s[Len(s)] \in {LF, CR}
    THEN rstrip(Take(s, Len(s) - 1))
    ELSE s

----------------------------------------------------------------------------
(* strip_mirc_colors *)

\* a colour pattern that takes any two characters for the argument
ColorArgLen_any(s) == IF Len(s) >= 2 THEN 2 ELSE Len(s)

\* length of what (\d{1,2}(,\d{1,2})?)? matches at the start of s
ColorArgLen(s) ==
    LET n1 == IF RunLen(s, Digits) > 2 THEN 2 ELSE RunLen(s, Digits)
        r  == Drop(s, n1)
        n2 == IF RunLen(Drop(r, 1), Digits) > 2 THEN 2
              ELSE RunLen(Drop(r, 1), Digits)
    IN  IF n1 = 0 THEN 0
        ELSE IF Len(r) >= 2 /\ r[1] = "," /\ n2 >= 1 THEN n1 + 1 + n2
        ELSE n1

RECURSIVE strip_colors(_)
\* re.sub(r'\x03(\d{1,2}(,\d{1,2})?)?', '', text)
strip_colors(s) ==
    IF s = <<>> THEN <<>>
    ELSE IF Head(s) = ETX
         THEN strip_colors(Drop(Tail(s), ColorArgLen(Tail(s))))
         ELSE <<Head(s)>> \o strip_colors(Tail(s))

\* a character class written with commas between its members
IsToggle_comma(c) == c \in FormatToggles \cup {","}

IsToggle(c) == c \in FormatToggles

\* re.sub(r'[\x02\x0f\x16\x1d\x1f\x07]', '', text)
strip_toggles(s) == SelectSeq(s, LAMBDA c : ~IsToggle(c))

strip_mirc_colors(s) == strip_toggles(strip_colors(s))

----------------------------------------------------------------------------
(* classify_message *)

\* what (.*)$ (min = 0) or (.+)$ (min = 1) captures when matched against all
\* of rest: '.' excludes LF and '$' also matches before one final LF
DotGroup(rest, min) ==
    LET body == IF Len(rest) > 0 /\ rest[Len(rest)] = LF
                THEN Take(rest, Len(rest) - 1) ELSE rest
    IN  IF Len(body) >= min /\ \A i \in 1..Len(body) : body[i] # LF
        THEN [ok |-> TRUE, group |-> body]
        ELSE [ok |-> FALSE, group |-> <<>>]

\* the channel rule written with (.+) like the rules after it
Bracketed_nonempty(t, open, close, min) ==
    LET k == IndexFrom(t, close, 2)
        g == DotGroup(Drop(t, k + 1), 1)
    IN  IF Len(t) >= 1 /\ t[1] = open /\ k >= 3 /\ Len(t) >= k + 1
           /\ t[k + 1] = TAB /\ g.ok
        THEN [ok |-> TRUE, nick |-> SubSeq(t, 2, k - 1), msg |-> g.group]
        ELSE [ok |-> FALSE, nick |-> <<>>, msg |-> <<>>]

\* ^<open>([^<close>]+)<close>\t(<rest>)$ : the name between the two
\* delimiters and the captured rest
Bracketed(t, open, close, min) ==
    LET k == IndexFrom(t, close, 2)
        g == DotGroup(Drop(t, k + 1), min)
    IN  IF Len(t) >= 1 /\ t[1] = open /\ k >= 3 /\ Len(t) >= k + 1
           /\ t[k + 1] = TAB /\ g.ok
        THEN [ok |-> TRUE, nick |-> SubSeq(t, 2, k - 1), msg |-> g.group]
        ELSE [ok |-> FALSE, nick |-> <<>>, msg |-> <<>>]

\* ^<marker>\t(.+)$
Marked(t, marker) ==
    LET g == DotGroup(Drop(t, Len(marker) + 1), 1)
    IN  IF StartsWith(t, marker \o <<TAB>>) /\ g.ok
        THEN [ok |-> TRUE, msg |-> g.group]
        ELSE [ok |-> FALSE, msg |-> <<>>]

\* ^\s*(\S+)\s*>>\t(.+)$ with the regex engine's greedy-first backtracking:
\* the whole non-blank run as nick, blanks, then >> ; failing that, the run
\* less its final >>
QueryRule(t) ==
    LET p  == RunLen(t, PyWhitespace)
        u  == Drop(t, p)
        q  == NonBlankLen(u)
        v  == Drop(u, q)
        w  == RunLen(v, PyWhitespace)
        x  == Drop(v, w)
        gA == DotGroup(Drop(x, 3), 1)
        gB == DotGroup(Drop(v, 1), 1)
    IN  IF q >= 1 /\ w >= 1 /\ StartsWith(x, <<">", ">", TAB>>) /\ gA.ok
        THEN [ok |-> TRUE, nick |-> Take(u, q), msg |-> gA.group]
        ELSE IF q >= 3 /\ u[q - 1] = ">" /\ u[q] = ">" /\ Len(v) >= 1
                /\ v[1] = TAB /\ gB.ok
        THEN [ok |-> TRUE, nick |-> Take(u, q - 2), msg |-> gB.group]
        ELSE [ok |-> FALSE, nick |-> <<>>, msg |-> <<>>]

classify_message(t) ==
    LET chan   == Bracketed(t, "<", ">", 0)
        join   == Marked(t, <<"-", "-", ">">>)
        part   == Marked(t, <<"<", "-", "-">>)
        status == Marked(t, <<"-", "-", "-">>)
        action == Marked(t, <<"*">>)
        notice == Bracketed(t, "-", "-", 1)
        snote  == Marked(t, <<"-", "*", "s", "t", "a", "t", "u", "s", "-">>)
        ctcp   == Bracketed(t, ">", "<", 1)
        query  == QueryRule(t)
    IN  IF chan.ok
        THEN [prefix |-> <<"<">> \o chan.nick \o <<">">>, message |-> chan.msg]
        ELSE IF join.ok
        THEN [prefix |-> <<"-", "-", ">">>, message |-> join.msg]
        ELSE IF part.ok
        THEN [prefix |-> <<"<", "-", "-">>, message |-> part.msg]
        ELSE IF status.ok
        THEN [prefix |-> <<"-", "-">>, message |-> status.msg]
        ELSE IF action.ok
        THEN [prefix |-> <<" ", "*">>, message |-> action.msg]
        ELSE IF notice.ok
        THEN [prefix |-> <<"-", "-">>,
              message |-> <<"-">> \o notice.nick \o <<"-", " ">> \o notice.msg]
        ELSE IF snote.ok
        THEN [prefix |-> <<"-", "-">>,
              message |-> <<"-", "*", "s", "t", "a", "t", "u", "s", "-", " ">>
                          \o snote.msg]
        ELSE IF ctcp.ok
        THEN [prefix |-> <<"-", "-">>,
              message |-> <<">">> \o ctcp.nick \o <<"<", " ">> \o ctcp.msg]
        ELSE IF query.ok
        THEN [prefix |-> <<"<">> \o query.nick \o <<">">>, message |-> query.msg]
        ELSE [prefix |-> <<"-", "-">>, message |-> t]

----------------------------------------------------------------------------
(* Timestamps: int(), datetime.fromtimestamp, strftime, strptime *)

SecondsPerDay == 86400

\* days since 1970-01-01 of 0001-01-01 and of 9999-12-31 (datetime.MINYEAR,
\* datetime.MAXYEAR): fromtimestamp raises outside
MinDay == -719162

MaxDay == 2932896

\* quotients are cut off here; every value this large is out of range
DayCap == 10000000

Reverse(s) == [i \in 1..Len(s) |-> s[Len(s) + 1 - i]]

\* the blanks int() ignores around a literal
IntBlanks == {" ", TAB, LF, CR, "^K", "^L"}

strip_blanks(s) ==
    LET t == Drop(s, RunLen(s, IntBlanks))
    IN  Take(t, Len(t) - RunLen(Reverse(t), IntBlanks))

\* int(s): ok is FALSE where Python raises ValueError.  Blanks around the
\* literal, a sign and single underscores between digits are accepted.
py_int(s) ==
    LET t    == strip_blanks(s)
        sgn  == Len(t) >= 1 /\ t[1] \in {"+", "-"}
        body == IF sgn THEN Tail(t) ELSE t
        ok   == /\ Len(body) >= 1
                /\ \A i \in 1..Len(body) : body[i] \in Digits \cup {"_"}
                /\ body[1] \in Digits
                /\ body[Len(body)] \in Digits
                /\ \A i \in 1..(Len(body) - 1) :
                        ~(body[i] = "_" /\ body[i + 1] = "_")
    IN  [ok |-> ok,
         neg |-> sgn /\ t[1] = "-",
         digits |-> SelectSeq(body, LAMBDA c : c \in Digits)]

RECURSIVE LongDiv(_, _, _)
\* <<quotient, remainder>> of the decimal number digits by 86400, continuing
\* from quotient q and remainder r
LongDiv(digits, q, r) ==
    IF digits = <<>> THEN <<q, r>>
    ELSE LET a  == r * 10 + DigitVal(Head(digits))
             q1 == q * 10 + (a \div SecondsPerDay)
         IN  LongDiv(Tail(digits), IF q1 > DayCap THEN DayCap ELSE q1,
                     a % SecondsPerDay)

\* the integer value of a literal as <<days, seconds of day>>
int_value(neg, digits) ==
    LET qr == LongDiv(digits, 0, 0)
    IN  IF ~neg THEN qr
        ELSE IF qr[2] = 0 THEN <<-qr[1], 0>>
        ELSE <<-qr[1] - 1, SecondsPerDay - qr[2]>>

\* datetime.fromtimestamp(ts, tz=timezone.utc) raises for these
out_of_range(ts) == ts[1] < MinDay \/ ts[1] > MaxDay

ts_less(a, b) == a[1] < b[1] \/ (a[1] = b[1] /\ a[2] < b[2])

\* proleptic Gregorian date of a day number
civil_from_days(z0) ==
    LET z   == z0 + 719468
        era == z \div 146097
        doe == z - era * 146097
        yoe == (doe - doe \div 1460 + doe \div 36524 - doe \div 146096) \div 365
        doy == doe - (365 * yoe + yoe \div 4 - yoe \div 100)
        mp  == (5 * doy + 2) \div 153
        d   == doy - (153 * mp + 2) \div 5 + 1
        m   == IF mp < 10 THEN mp + 3 ELSE mp - 9
    IN  [y |-> yoe + era * 400 + (IF m <= 2 THEN 1 ELSE 0), m |-> m, d |-> d]

days_from_civil(y0, m, d) ==
    LET y   == IF m <= 2 THEN y0 - 1 ELSE y0
        era == y \div 400
        yoe == y - era * 400
        doy == (153 * (IF m > 2 THEN m - 3 ELSE m + 9) + 2) \div 5 + d - 1
        doe == yoe * 365 + yoe \div 4 - yoe \div 100 + doy
    IN  era * 146097 + doe - 719468

IsLeap(y) == y % 4 = 0 /\ (y % 100 # 0 \/ y % 400 = 0)

DaysInMonth(y, m) ==
    IF m = 2 THEN (IF IsLeap(y) THEN 29 ELSE 28)
    ELSE IF m \in {4, 6, 9, 11} THEN 30 ELSE 31

RECURSIVE Decimal(_)
Decimal(n) ==
    IF n < 10 THEN <<DigitChar(n)>>
    ELSE Decimal(n \div 10) \o <<DigitChar(n % 10)>>

Pad2(n) == <<DigitChar(n \div 10), DigitChar(n % 10)>>

\* dt.strftime('%Y-%m-%d %H:%M:%S'); the C library's %Y does not pad years
\* below 1000
strftime(ts) ==
    LET c == civil_from_days(ts[1])
    IN  Decimal(c.y) \o <<"-">> \o Pad2(c.m) \o <<"-">> \o Pad2(c.d) \o <<" ">>
        \o Pad2(ts[2] \div 3600) \o <<":">> \o Pad2((ts[2] % 3600) \div 60)
        \o <<":">> \o Pad2(ts[2] % 60)

----------------------------------------------------------------------------
(* parse_hexchat_line *)

NoRecord == [kind |-> "none", ts |-> <<0, 0>>, dt_str |-> <<>>,
             prefix |-> <<>>, message |-> <<>>]

\* an exception that parse_hexchat_line lets escape
Raised == [kind |-> "raise", ts |-> <<0, 0>>, dt_str |-> <<>>,
           prefix |-> <<>>, message |-> <<>>]

has_disallowed_control(l) ==
    \E i \in 1..Len(l) : l[i] \in ControlChars /\ l[i] \notin allowed_control

\* line.split(' ', 2)
split_fields(l) ==
    LET p1 == IndexFrom(l, " ", 1)
        p2 == IF p1 = 0 THEN 0 ELSE IndexFrom(l, " ", p1 + 1)
    IN  IF p1 = 0 THEN <<l>>
        ELSE IF p2 = 0 THEN <<Take(l, p1 - 1), Drop(l, p1)>>
        ELSE <<Take(l, p1 - 1), SubSeq(l, p1 + 1, p2 - 1), Drop(l, p2)>>

parse_hexchat_line(raw_line) ==
    LET l     == rstrip(raw_line)
        parts == split_fields(l)
        n     == py_int(parts[2])
        ts    == int_value(n.neg, n.digits)
        cm    == classify_message(strip_mirc_colors(parts[3]))
    IN  IF ~StartsWith(l, <<"T", " ">>) THEN NoRecord
        ELSE IF has_disallowed_control(l) THEN NoRecord
        ELSE IF Len(parts) < 3 THEN NoRecord
        ELSE IF ~n.ok THEN NoRecord
        ELSE IF out_of_range(ts) THEN Raised
        ELSE [kind |-> "record", ts |-> ts, dt_str |-> strftime(ts),
              prefix |-> cm.prefix, message |-> cm.message]

----------------------------------------------------------------------------
(* parse_weechat_line *)

NoEntry == [ok |-> FALSE, ts |-> <<0, 0>>, line |-> <<>>]

Num2(l, i) == DigitVal(l[i]) * 10 + DigitVal(l[i + 1])

\* ^(\d{4}-\d{2}-\d{2} \d{2}:\d{2}:\d{2})\t
header_match(l) ==
    /\ Len(l) >= 20
    /\ \A i \in {1, 2, 3, 4, 6, 7, 9, 10, 12, 13, 15, 16, 18, 19} :
            l[i] \in Digits
    /\ l[5] = "-" /\ l[8] = "-" /\ l[11] = " "
    /\ l[14] = ":" /\ l[17] = ":" /\ l[20] = TAB

parse_weechat_line(raw_line) ==
    LET l  == rstrip(raw_line)
        y  == Num2(l, 1) * 100 + Num2(l, 3)
        mo == Num2(l, 6)
        d  == Num2(l, 9)
        h  == Num2(l, 12)
        mi == Num2(l, 15)
        s  == Num2(l, 18)
    IN  IF l = <<>> THEN NoEntry
        ELSE IF ~header_match(l) THEN NoEntry
        \* datetime.strptime raises ValueError
        ELSE IF ~(/\ y >= 1 /\ mo \in 1..12 /\ d >= 1 /\ d <= DaysInMonth(y, mo)
                  /\ h <= 23 /\ mi <= 59 /\ s <= 59) THEN NoEntry
        ELSE [ok |-> TRUE,
              ts |-> <<days_from_civil(y, mo, d), h * 3600 + mi * 60 + s>>,
              line |-> l]

----------------------------------------------------------------------------
(* process_file *)

\* the subdirectories "1", "2", "3", "4", in the order they are read
SUBDIRS == <<1, 2, 3, 4>>

\* A file is its lines, without their terminators, as iterating over the
\* open file yields them (so no line holds LF or CR).
Absent == [exists |-> FALSE, lines |-> <<>>]

FileOf(ls) == [exists |-> TRUE, lines |-> ls]

RECURSIVE source_lines(_, _)
\* the lines of the subdirectories d, d+1, ... that hold the file
source_lines(hex, d) ==
    IF d > Len(SUBDIRS) THEN <<>>
    ELSE (IF hex[SUBDIRS[d]].exists THEN hex[SUBDIRS[d]].lines ELSE <<>>)
         \o source_lines(hex, d + 1)

\* the fields joined by blanks instead of TABs
formatted_blank(r) == r.dt_str \o <<" ">> \o r.prefix \o <<" ">> \o r.message

formatted(r) == r.dt_str \o <<TAB>> \o r.prefix \o <<TAB>> \o r.message

Entry(ts, l) == [ts |-> ts, line |-> l]

RECURSIVE hex_entries(_)
\* the entries appended for a sequence of parse_hexchat_line results
hex_entries(rs) ==
    IF rs = <<>> THEN <<>>
    ELSE (IF Head(rs).kind = "record"
          THEN <<Entry(Head(rs).ts, formatted(Head(rs)))>> ELSE <<>>)
         \o hex_entries(Tail(rs))

RECURSIVE weechat_entries(_)
\* the entries appended for the lines of the existing weechat log
weechat_entries(ls) ==
    IF ls = <<>> THEN <<>>
    ELSE (LET r == parse_weechat_line(Head(ls))
          IN  IF r.ok THEN <<Entry(r.ts, r.line)>> ELSE <<>>)
         \o weechat_entries(Tail(ls))

\* an unstable sort: in front of the entries of the same key
insert_pos_before(entries, order, e) ==
    Cardinality({i \in 1..Len(order) :
                    ts_less(entries[order[i]].ts, entries[e].ts)})

\* where a stable sort puts entry e among the already sorted order: behind
\* every entry whose key is not greater
insert_pos(entries, order, e) ==
    Cardinality({i \in 1..Len(order) :
                    ~ts_less(entries[e].ts, entries[order[i]].ts)})

\* the one element of a singleton set: Only({e(x) : x \in {v}}) is e with x
\* bound to the value of v, so that a local the code assigns once is
\* evaluated once
Only(S) == CHOOSE x \in S : TRUE

\* entry e put into the sorted order at position k
insert_at(order, k, e) == Take(order, k) \o <<e>> \o Drop(order, k)

RECURSIVE sort_order(_, _)
\* entries.sort(key=lambda x: x[0]) applied to the first n entries, as the
\* sequence of their indices
sort_order(entries, n) ==
    IF n = 0 THEN <<>>
    ELSE Only({insert_at(prior, insert_pos(entries, prior, n), n) :
                   prior \in {sort_order(entries, n - 1)}})

\* duplicates told by the timestamp alone
differs_by_ts(entries, order, i) ==
    i = 1 \/ entries[order[i]].ts # entries[order[i - 1]].ts

\* the test  entry != prev  for the i-th entry of the sorted sequence
differs_from_prev(entries, order, i) ==
    i = 1 \/ entries[order[i]] # entries[order[i - 1]]

\* the indices of the entries appended to deduped, in order
dedup(entries, order) ==
    LET keep == {i \in 1..Len(order) : differs_from_prev(entries, order, i)}
    IN  [j \in 1..Cardinality(keep) |->
            order[CHOOSE i \in keep : Cardinality({h \in keep : h <= i}) = j]]

NoMerge == [entries |-> <<>>, order |-> <<>>, kept |-> <<>>]

\* the early return left out
nothing_converted_never(hex_count) == hex_count < 0

\* hex_count == 0 : nothing was converted
nothing_converted(hex_count) == hex_count = 0

\* the results of parse_hexchat_line for the lines read from the
\* subdirectories, in the order they are read
collect(hex) ==
    Only({[i \in 1..Len(ls) |-> parse_hexchat_line(ls[i])] :
              ls \in {source_lines(hex, 1)}})

\* the entries of the weechat log, if it exists
existing(wee) == IF wee.exists THEN weechat_entries(wee.lines) ELSE <<>>

\* what process_file returns and leaves behind, given its locals
outcome(parsed, hex_count, entries, order, kept, wee) ==
    IF \E i \in 1..Len(parsed) : parsed[i].kind = "raise"
    THEN [raised |-> TRUE, hex_count |-> 0, weechat_count |-> 0,
          final_count |-> 0, weechat |-> wee, read |-> FALSE,
          wrote |-> FALSE, merge |-> NoMerge]
    ELSE IF nothing_converted(hex_count)
    THEN [raised |-> FALSE, hex_count |-> 0, weechat_count |-> 0,
          final_count |-> 0, weechat |-> wee, read |-> FALSE,
          wrote |-> FALSE, merge |-> NoMerge]
    ELSE [raised |-> FALSE, hex_count |-> hex_count,
          weechat_count |-> Len(entries) - hex_count,
          final_count |-> Len(kept),
          weechat |-> FileOf([j \in 1..Len(kept) |-> entries[kept[j]].line]),
          read |-> wee.exists, wrote |-> TRUE,
          merge |-> [entries |-> entries, order |-> order, kept |-> kept]]

\* The outcome of process_file: what it returns (or that it raised), the
\* weechat file afterwards and whether that file was opened for reading and
\* for writing.  The locals are bound in the order the code assigns them.
process_file(hex, wee) ==
    Only({Only({Only({Only({Only({
        outcome(parsed, Len(hexs), entries, order, kept, wee) :
            kept    \in {dedup(entries, order)}}) :
            order   \in {sort_order(entries, Len(entries))}}) :
            entries \in {hexs \o existing(wee)}}) :
            hexs    \in {hex_entries(parsed)}}) :
            parsed  \in {collect(hex)}})

----------------------------------------------------------------------------
(* main *)

\* the names collected from the subdirectories (one logical file is modelled)
all_hexchat_files(hex) ==
    IF \E d \in 1..Len(SUBDIRS) : hex[SUBDIRS[d]].exists THEN {"log"} ELSE {}

----------------------------------------------------------------------------
(* Bounds and input pools *)

MaxSrcLines == 2

MaxDestLen == 1

MaxRuns == 2

MaxRemLen == 5

MaxTextLen == 5

BoundedSeq(S, n) == UNION {[1..k -> S] : k \in 0..n}

\* T 1700000000 <alice>\tHello\x03(4world
LineAlice ==
    <<"T", " ", "1", "7", "0", "0", "0", "0", "0", "0", "0", "0", " ",
      "<", "a", "l", "i", "c", "e", ">", TAB,
      "H", "e", "l", "l", "o", ETX, "(", "4", "w", "o", "r", "l", "d">>

\* another record of the same second
LineBob ==
    <<"T", " ", "1", "7", "0", "0", "0", "0", "0", "0", "0", "0", " ",
      "<", "b", "o", "b", ">", TAB, "H", "i">>

\* one second earlier, no TAB
LineEarly ==
    <<"T", " ", "1", "6", "9", "9", "9", "9", "9", "9", "9", "9", " ", "x">>

\* holds the disallowed control character 0x01
LineBinary ==
    <<"T", " ", "1", "7", "0", "0", "0", "0", "0", "0", "0", "0", " ",
      "x", "^A">>

\* the first second of year 10000
LineHuge ==
    <<"T", " ", "2", "5", "3", "4", "0", "2", "3", "0", "0", "8", "0", "0",
      " ", "x">>

SrcPool == {LineAlice, LineBob, LineEarly, LineBinary, LineHuge}

\* what LineAlice is converted to
DestAlice ==
    <<"2", "0", "2", "3", "-", "1", "1", "-", "1", "4", " ",
      "2", "2", ":", "1", "3", ":", "2", "0", TAB,
      "<", "a", "l", "i", "c", "e", ">", TAB,
      "H", "e", "l", "l", "o", "(", "4", "w", "o", "r", "l", "d">>

\* what LineEarly is converted to
DestEarly ==
    <<"2", "0", "2", "3", "-", "1", "1", "-", "1", "4", " ",
      "2", "2", ":", "1", "3", ":", "1", "9", TAB, "-", "-", TAB, "x">>

\* 31 November: the header has the shape but is no date
DestNoDate ==
    <<"2", "0", "2", "3", "-", "1", "1", "-", "3", "1", " ",
      "2", "2", ":", "1", "3", ":", "2", "0", TAB, "x">>

DestPool == {DestAlice, DestEarly, DestNoDate}

\* the part of a source line up to its remainder
Heads ==
    {<<"T", " ", "4", " ">>,
     <<"T", " ", "-", "4", " ">>,
     <<"T", " ", "x", " ">>,
     <<"T", " ", "4">>,
     <<"X", " ", "4", " ">>,
     <<"T", " ", "2", "5", "3", "4", "0", "2", "3", "0", "0", "8", "0", "0",
       " ">>}

RemAlphabet == {"<", ">", TAB, ETX, "^A", "4"}

StripAlphabet == {ETX, "^B", "4", ",", "a"}

----------------------------------------------------------------------------
(* The merge specification: calls of process_file and runs of main over   *)
(* one logical file.                                                       *)

NoRet == [raised |-> FALSE, hex_count |-> 0, weechat_count |-> 0,
          final_count |-> 0]

NoIo == [called |-> FALSE, read |-> FALSE, wrote |-> FALSE]

Idle ==
    /\ line = <<>> /\ result = NoRecord /\ text = <<>> /\ clean = <<>>

Init ==
    /\ pc = "files"
    /\ \E n \in 0..MaxSrcLines :
         \E ls \in [1..n -> SrcPool], sub \in [1..n -> 1..Len(SUBDIRS)] :
            /\ \A i \in 1..(n - 1) : sub[i] <= sub[i + 1]
            /\ hexchat = [d \in 1..Len(SUBDIRS) |->
                   LET mine == SelectSeq([i \in 1..n |-> i],
                                         LAMBDA i : sub[i] = d)
                   IN  IF mine = <<>> THEN Absent
                       ELSE FileOf([j \in 1..Len(mine) |-> ls[mine[j]]])]
    /\ weechat \in {Absent} \cup {FileOf(ls) : ls \in BoundedSeq(DestPool, MaxDestLen)}
    /\ ret = NoRet /\ io = NoIo /\ merged = NoMerge
    /\ before = Absent /\ runs = 0
    /\ Idle

\* process_file(name) called for the logical file
ProcessFile ==
    /\ pc = "files" /\ runs < MaxRuns
    /\ \E p \in {process_file(hexchat, weechat)} :
           /\ weechat' = p.weechat
           /\ ret' = [raised |-> p.raised, hex_count |-> p.hex_count,
                      weechat_count |-> p.weechat_count,
                      final_count |-> p.final_count]
           /\ io' = [called |-> TRUE, read |-> p.read, wrote |-> p.wrote]
           /\ merged' = p.merge
    /\ before' = weechat
    /\ runs' = runs + 1
    /\ UNCHANGED <<hexchat, pc, line, result, text, clean>>

\* one run of the script: collect the names and call process_file for each
\* (the counters main keeps are only printed)
Main ==
    /\ pc = "files" /\ runs < MaxRuns
    /\ IF all_hexchat_files(hexchat) = {}
       THEN /\ UNCHANGED weechat
            /\ ret' = NoRet /\ io' = NoIo /\ merged' = NoMerge
       ELSE \E p \in {process_file(hexchat, weechat)} :
                /\ weechat' = p.weechat
                /\ ret' = [raised |-> p.raised, hex_count |-> p.hex_count,
                           weechat_count |-> p.weechat_count,
                           final_count |-> p.final_count]
                /\ io' = [called |-> TRUE, read |-> p.read, wrote |-> p.wrote]
                /\ merged' = p.merge
    /\ before' = weechat
    /\ runs' = runs + 1
    /\ UNCHANGED <<hexchat, pc, line, result, text, clean>>

Next == ProcessFile \/ Main

Spec == Init /\ [][Next]_vars

----------------------------------------------------------------------------
(* The classifier specification: parse_hexchat_line applied to one line.   *)

NoFiles == [d \in 1..Len(SUBDIRS) |-> Absent]

Quiet ==
    /\ hexchat = NoFiles /\ weechat = Absent /\ ret = NoRet /\ io = NoIo
    /\ merged = NoMerge /\ before = Absent /\ runs = 0

InitParse ==
    /\ pc = "line"
    /\ line \in {h \o r : h \in Heads, r \in BoundedSeq(RemAlphabet, MaxRemLen)}
    /\ result = NoRecord /\ text = <<>> /\ clean = <<>>
    /\ Quiet

ParseLine ==
    /\ pc = "line"
    /\ result' = parse_hexchat_line(line)
    /\ pc' = "parsed"
    /\ UNCHANGED <<hexchat, weechat, ret, io, merged, before, runs,
                   line, text, clean>>

NextParse == ParseLine

SpecParse == InitParse /\ [][NextParse]_vars

----------------------------------------------------------------------------
(* The stripping specification: strip_mirc_colors applied to one text.     *)

InitStrip ==
    /\ pc = "text"
    /\ text \in BoundedSeq(StripAlphabet, MaxTextLen)
    /\ clean = <<>> /\ line = <<>> /\ result = NoRecord
    /\ Quiet

StripText ==
    /\ pc = "text"
    /\ clean' = strip_mirc_colors(text)
    /\ pc' = "stripped"
    /\ UNCHANGED <<hexchat, weechat, ret, io, merged, before, runs,
                   line, result, text>>

NextStrip == StripText

SpecStrip == InitStrip /\ [][NextStrip]_vars

----------------------------------------------------------------------------
(* Properties of the merge specification *)

Range(f) == {f[i] : i \in DOMAIN f}

AllSourceLines ==
    (IF hexchat[1].exists THEN hexchat[1].lines ELSE <<>>)
    \o (IF hexchat[2].exists THEN hexchat[2].lines ELSE <<>>)
    \o (IF hexchat[3].exists THEN hexchat[3].lines ELSE <<>>)
    \o (IF hexchat[4].exists THEN hexchat[4].lines ELSE <<>>)

\* the four classifier preconditions, as the specification lists them
PassesPreconditions(l) ==
    /\ Len(l) >= 2 /\ l[1] = "T" /\ l[2] = " "
    /\ \A i \in 1..Len(l) :
         l[i] \in ControlChars =>
            l[i] \in {"^B", ETX, "^G", "^O", "^V", "^]", "^_", TAB, LF, CR}
    /\ Len(split_fields(l)) >= 3
    /\ py_int(split_fields(l)[2]).ok

\* a YYYY-MM-DD HH:MM:SS + TAB header whose digits are a date and a time
ValidHeader(l) ==
    /\ header_match(l)
    /\ Num2(l, 1) * 100 + Num2(l, 3) >= 1
    /\ Num2(l, 6) \in 1..12
    /\ Num2(l, 9) \in 1..DaysInMonth(Num2(l, 1) * 100 + Num2(l, 3), Num2(l, 6))
    /\ Num2(l, 12) \in 0..23 /\ Num2(l, 15) \in 0..59 /\ Num2(l, 18) \in 0..59

\* C1: when no source record is recovered for the logical file (no source
\* file, or no classifiable source line), the destination file is neither
\* read nor written and is afterwards exactly what it was before the call.
C1_ZeroRecoveredLeavesDestination ==
    (runs >= 1
     /\ \A i \in 1..Len(AllSourceLines) :
            parse_hexchat_line(AllSourceLines[i]).kind = "none")
    => (weechat = before /\ ~io.read /\ ~io.wrote)

\* process_file was called with source files that hold only unclassifiable
\* lines while the destination held a line the merge would have dropped
C1_Witness ==
    /\ runs >= 1 /\ io.called /\ ~ret.raised
    /\ AllSourceLines # <<>>
    /\ \A i \in 1..Len(AllSourceLines) :
            parse_hexchat_line(AllSourceLines[i]).kind = "none"
    /\ before = FileOf(<<DestNoDate>>)
    /\ weechat = before

\* C2: the written lines are in non-decreasing timestamp order, and
\* surviving records of equal timestamp keep the relative order they have in
\* the concatenated input (source records by subdirectory and line, then the
\* destination's records), also across sources.
C2_SortedAndStable ==
    io.wrote =>
        LET e == merged.entries
            k == merged.kept
        IN  /\ e = hex_entries([i \in 1..Len(AllSourceLines) |->
                                    parse_hexchat_line(AllSourceLines[i])])
                   \o weechat_entries(before.lines)
            /\ weechat.lines = [j \in 1..Len(k) |-> e[k[j]].line]
            /\ \A i, j \in 1..Len(k) :
                 i < j => /\ ~ts_less(e[k[j]].ts, e[k[i]].ts)
                          /\ (e[k[i]].ts = e[k[j]].ts => k[i] < k[j])

\* a source record and a destination record of the same second both survive,
\* and some destination record was sorted in front of a source record
C2_Witness ==
    /\ io.wrote
    /\ \E i, j \in 1..Len(merged.kept) :
         /\ i < j
         /\ merged.kept[i] <= ret.hex_count /\ merged.kept[j] > ret.hex_count
         /\ merged.entries[merged.kept[i]].ts = merged.entries[merged.kept[j]].ts
    /\ \E i, j \in 1..Len(merged.kept) :
         i < j /\ merged.kept[i] > merged.kept[j]

\* C3: walking the sorted sequence, a record is written iff its line differs
\* from the line of the last record written before it; so the file never has
\* two equal consecutive lines, while equal lines separated by another line
\* are both written.
C3_AdjacentDedup ==
    io.wrote =>
        LET e == merged.entries
            o == merged.order
            k == merged.kept
            written(i) == o[i] \in Range(k)
            last(i) == CHOOSE h \in 1..(i - 1) :
                          written(h) /\ \A g \in (h + 1)..(i - 1) : ~written(g)
        IN  /\ Len(o) = Len(e) /\ Range(o) = 1..Len(e)
            /\ Range(k) \subseteq Range(o)
            /\ weechat.lines = [j \in 1..Len(k) |-> e[k[j]].line]
            /\ \A i \in 1..Len(o) :
                 written(i) <=>
                    (i = 1 \/ e[o[i]].line # e[o[last(i)]].line)
            /\ \A j \in 1..(Len(weechat.lines) - 1) :
                 weechat.lines[j] # weechat.lines[j + 1]

\* a line was written twice, before and after a different line of the same
\* second
C3_Witness ==
    /\ io.wrote
    /\ \E a, b, c \in 1..Len(weechat.lines) :
         /\ a < b /\ b < c
         /\ weechat.lines[a] = weechat.lines[c]
         /\ weechat.lines[a] # weechat.lines[b]

\* C4: a second run over the same source files, the destination holding the
\* first run's output, writes exactly the lines the first run wrote.
C4_RerunWritesSameLines ==
    (runs >= 2 /\ io.wrote) => weechat = before

\* C5: whenever the destination is written, every line of the former
\* destination with a valid header is in the output verbatim, and every source
\* line passing the four preconditions is there as its serialized record.
C5_NoClassifiableInputLost ==
    io.wrote =>
        /\ \A i \in 1..Len(before.lines) :
             ValidHeader(before.lines[i]) =>
                before.lines[i] \in Range(weechat.lines)
        /\ \A i \in 1..Len(AllSourceLines) :
             PassesPreconditions(AllSourceLines[i]) =>
                LET r == parse_hexchat_line(AllSourceLines[i])
                IN  /\ r.kind = "record"
                    /\ r.dt_str \o <<TAB>> \o r.prefix \o <<TAB>> \o r.message
                          \in Range(weechat.lines)

\* a merge of classifiable source lines with a destination that held a valid
\* line, in which duplicates were collapsed
C5_Witness ==
    /\ io.wrote
    /\ \E i \in 1..Len(before.lines) : ValidHeader(before.lines[i])
    /\ \E i \in 1..Len(AllSourceLines) : PassesPreconditions(AllSourceLines[i])
    /\ Len(merged.kept) < Len(merged.entries)

\* the end-to-end scenario: the one source line T 1700000000 <alice> TAB
\* Hello 0x03 (4world, in one subdirectory, and no destination file
AliceScenario ==
    /\ runs = 1 /\ io.called
    /\ before = Absent
    /\ AllSourceLines = <<LineAlice>>

\* C9 as stated: the scenario writes the one line
\* 2023-11-14 22:13:20 TAB <alice> TAB Helloworld.
C9_AliceHelloworld ==
    AliceScenario =>
        weechat = FileOf(<<
            <<"2", "0", "2", "3", "-", "1", "1", "-", "1", "4", " ",
              "2", "2", ":", "1", "3", ":", "2", "0", TAB,
              "<", "a", "l", "i", "c", "e", ">", TAB,
              "H", "e", "l", "l", "o", "w", "o", "r", "l", "d">> >>)

\* C9 amended: the scenario writes the one line
\* 2023-11-14 22:13:20 TAB <alice> TAB Hello(4world: the time is rendered in
\* UTC and only the colour introducer is removed, "(4" not being digits.
C9_AliceKeepsParen ==
    AliceScenario => weechat = FileOf(<<DestAlice>>)

C9_Witness ==
    AliceScenario /\ io.wrote /\ ret.final_count = 1

----------------------------------------------------------------------------
(* Properties of the classifier specification *)

\* C6: parse_hexchat_line returns a record or the not-classifiable signal
\* for every line; it never raises.
C6_ParseNeverRaises ==
    pc = "parsed" => result.kind \in {"record", "none"}

\* C7: a line that begins with the marker T and a blank and holds a control
\* character outside {0x02, 0x03, 0x07, 0x0f, 0x16, 0x1d, 0x1f, TAB, LF, CR}
\* is not classifiable.
C7_DisallowedControlRejected ==
    (/\ pc = "parsed"
     /\ Len(line) >= 2 /\ line[1] = "T" /\ line[2] = " "
     /\ \E i \in 1..Len(line) :
          /\ line[i] \in ControlChars
          /\ line[i] \notin {"^B", ETX, "^G", "^O", "^V", "^]", "^_", TAB, LF, CR})
    => result = NoRecord

\* T 4 <4> TAB 0x01: but for the control character a channel message
C7_Witness ==
    /\ pc = "parsed"
    /\ line = <<"T", " ", "4", " ", "<", "4", ">", TAB, "^A">>
    /\ result.kind = "none"

\* the remainder of a line: what follows its second blank
Remainder(l) == split_fields(l)[3]

\* t is <speaker> TAB text, the speaker non-empty and without ">"
SpeakerForm(t) ==
    /\ Len(t) >= 4 /\ t[1] = "<"
    /\ \E k \in 3..(Len(t) - 1) :
         /\ t[k] = ">" /\ t[k + 1] = TAB
         /\ \A j \in 2..(k - 1) : t[j] # ">"

SpeakerEnd(t) == CHOOSE k \in 3..(Len(t) - 1) :
                    t[k] = ">" /\ \A j \in 2..(k - 1) : t[j] # ">"

\* C8: for a line that passes the preconditions and whose stripped remainder
\* is <speaker> TAB text, the record's prefix is <speaker> and its message is
\* text, TABs included.
C8_SpeakerMessage ==
    (/\ pc = "parsed"
     /\ PassesPreconditions(line)
     /\ SpeakerForm(strip_mirc_colors(Remainder(line))))
    => LET t == strip_mirc_colors(Remainder(line))
       IN  /\ result.kind \in {"record", "raise"}
           /\ result.kind = "record" =>
                /\ result.prefix = Take(t, SpeakerEnd(t))
                /\ result.message = Drop(t, SpeakerEnd(t) + 1)

\* a channel message whose text holds a TAB
C8_Witness ==
    /\ pc = "parsed"
    /\ PassesPreconditions(line)
    /\ SpeakerForm(strip_mirc_colors(Remainder(line)))
    /\ result.kind = "record"
    /\ result.prefix = <<"<", "4", ">">>
    /\ \E i \in 1..Len(result.message) : result.message[i] = TAB

----------------------------------------------------------------------------
(* Properties of the stripping specification *)

\* the reverse order: toggles first, colour sequences second
toggles_first(s) == strip_colors(strip_toggles(s))

\* C10 as stated: removing the colour sequences first and the toggles second
\* gives the same text as removing the toggles first.
C10_OrderIndependent ==
    pc = "stripped" => clean = toggles_first(text)

NoToggleBeforeArg(s) ==
    \A i \in 1..(Len(s) - 1) :
        s[i] \in {"^B", "^O", "^V", "^]", "^_", "^G"} =>
            s[i + 1] \notin Digits \cup {","}

\* C10 amended: the two orders agree on every text in which no format toggle
\* is immediately followed by a digit or a comma.
C10_OrderIndependentApart ==
    (pc = "stripped" /\ NoToggleBeforeArg(text)) => clean = toggles_first(text)

\* a colour sequence with an argument and a toggle, both removed
C10_Witness ==
    /\ pc = "stripped"
    /\ NoToggleBeforeArg(text)
    /\ text = <<ETX, "4", "^B", "a">>
    /\ clean = <<"a">>

====
